---- MODULE Spec2Model ----
(***************************************************************************)
(* ACE compliance engine: the extraction run orchestrator                  *)
(* (ace/extraction/runner.py), the ACORD 25 parse step with its Claude     *)
(* Haiku fallback (ace/extraction/parser_acord25.py, claude_client.py),    *)
(* the batch driver (scripts/process_extraction_queue.py) and the reset    *)
(* scripts, modelled as one state machine over the SQLite store.           *)
(*                                                                         *)
(* Money is in thousands of dollars; quality scores are scaled by          *)
(* QualityScale (0.7 is 84, 0.8 is 96, 0.9 is 108, 0.5 is 60).             *)
(***************************************************************************)
EXTENDS Integers, Sequences, FiniteSets, TLC

\* ------------------------------------------------------------------ bounds
NumCerts == 2
MaxRuns == 2
MaxBatch == 2
MaxPolicies == 3

\* Longest text, in units of cache-file content, a caller extracts.
MaxText == 2

\* Document types, the generic certificate aside, a text has matches for.
MaxTypes == 2

Certs == 1..NumCerts

\* ------------------------------------------------------- program constants
StopAfterAttemptBug == 3 + 1
StopAfterAttempt == 3
QualityScale == 120
AcceptThreshold == 84
TextAcceptThreshold == 96
HaikuQualityHigh == 108
HaikuQualityLow == 60
MinPrimaryLimit == 100
MaxMedExp == 100
MaxDamagePrem == 2000

\* Python None for an optional amount; a run id of 0 is Python None.
NoneVal == -1

Codes ==
  {"GL_EACH_OCC", "GL_AGGREGATE", "GL_PERS_ADV", "GL_PROD_AGG",
   "GL_DAMAGE_PREM", "GL_MED_EXP"}

ExtractionStatus ==
  {"PENDING", "STARTED", "OCR_IN_PROGRESS", "PARSING", "SUCCESS", "FAILED",
   "OCR_FAILED", "PARSING_FAILED", "VALIDATION_FAILED", "TIMEOUT"}

\* Python truthiness of an optional float: None and 0.0 are falsy.
Truthy(v) == v # NoneVal /\ v # 0

\* ParserConfig.limit_ranges: the declared range of each code, (min, max)
LimitRanges ==
  [code \in Codes |->
     CASE code = "GL_EACH_OCC"    -> <<100, 10000>>
       [] code = "GL_AGGREGATE"   -> <<300, 20000>>
       [] code = "GL_PERS_ADV"    -> <<100, 10000>>
       [] code = "GL_PROD_AGG"    -> <<300, 20000>>
       [] code = "GL_DAMAGE_PREM" -> <<50, 1000>>
       [] OTHER                   -> <<5, 50>>]

\* ------------------------------------------------ plausibility filter
RangeFiltered(code, value) ==
  IF value = NoneVal THEN NoneVal
  ELSE IF code \in {"GL_EACH_OCC", "GL_AGGREGATE", "GL_PERS_ADV", "GL_PROD_AGG"}
          /\ value < MinPrimaryLimit THEN NoneVal
  ELSE IF code = "GL_MED_EXP" /\ value > MaxMedExp THEN NoneVal
  ELSE IF code = "GL_DAMAGE_PREM" /\ value > MaxDamagePrem THEN NoneVal
  ELSE value

FilterBizarreValuesNoSwap(limits) ==
  [code \in Codes |-> RangeFiltered(code, limits[code])]

FilterBizarreValues(limits) ==
  LET filtered == [code \in Codes |-> RangeFiltered(code, limits[code])]
      each_occ == filtered["GL_EACH_OCC"]
      gen_agg  == filtered["GL_AGGREGATE"]
  IN IF Truthy(each_occ) /\ Truthy(gen_agg) /\ each_occ > gen_agg
       THEN [filtered EXCEPT !["GL_EACH_OCC"] = gen_agg,
                             !["GL_AGGREGATE"] = each_occ]
       ELSE filtered

\* ------------------------------------------------------ quality scorer
ScoreIssuesNoMissing(limits) ==
  LET each_occ == limits["GL_EACH_OCC"]
      gen_agg  == limits["GL_AGGREGATE"]
      close    == IF Truthy(each_occ) /\ Truthy(gen_agg)
                     /\ 2 * gen_agg < 3 * each_occ
                    THEN <<"AGGREGATE muito proximo de EACH_OCC">> ELSE <<>>
  IN IF ~Truthy(each_occ) /\ ~Truthy(gen_agg)
       THEN <<"Sem limites principais">>
       ELSE close

ScoreIssues(limits) ==
  LET each_occ == limits["GL_EACH_OCC"]
      gen_agg  == limits["GL_AGGREGATE"]
      missing  == IF ~Truthy(each_occ) \/ ~Truthy(gen_agg)
                    THEN <<"Falta limite principal">> ELSE <<>>
      inverted == IF Truthy(each_occ) /\ Truthy(gen_agg) /\ each_occ > gen_agg
                    THEN <<"EACH_OCC > AGGREGATE">> ELSE <<>>
      \* ratio = gen_agg / each_occ < 1.5, i.e. 2*gen_agg < 3*each_occ
      close    == IF Truthy(each_occ) /\ Truthy(gen_agg)
                     /\ 2 * gen_agg < 3 * each_occ
                    THEN <<"AGGREGATE muito proximo de EACH_OCC">> ELSE <<>>
  IN IF ~Truthy(each_occ) /\ ~Truthy(gen_agg)
       THEN <<"Sem limites principais">>
       ELSE missing \o inverted \o close

ValidateAndScoreOfFive(limits) ==
  LET each_occ == limits["GL_EACH_OCC"]
      gen_agg  == limits["GL_AGGREGATE"]
      issues   == ScoreIssues(limits)
      valid    == Cardinality({code \in Codes : limits[code] # NoneVal})
      base     == valid * (QualityScale \div 5)
      withBoth == IF Truthy(each_occ) /\ Truthy(gen_agg)
                    THEN base ELSE base \div 2
  IN IF ~Truthy(each_occ) /\ ~Truthy(gen_agg)
       THEN [quality |-> 0, issues |-> issues]
       ELSE [quality |-> IF Len(issues) <= 1 THEN withBoth
                                              ELSE withBoth \div 2,
             issues |-> issues]

ValidateAndScoreZeroOnMissing(limits) ==
  LET each_occ == limits["GL_EACH_OCC"]
      gen_agg  == limits["GL_AGGREGATE"]
      issues   == ScoreIssues(limits)
      valid    == Cardinality({code \in Codes : limits[code] # NoneVal})
  IN IF ~Truthy(each_occ) \/ ~Truthy(gen_agg)
       THEN [quality |-> 0, issues |-> issues]
       ELSE [quality |-> IF Len(issues) <= 1
                           THEN valid * (QualityScale \div 6)
                           ELSE (valid * (QualityScale \div 6)) \div 2,
             issues |-> issues]

ValidateAndScoreNoHalf(limits) ==
  LET each_occ == limits["GL_EACH_OCC"]
      gen_agg  == limits["GL_AGGREGATE"]
      issues   == ScoreIssues(limits)
      valid    == Cardinality({code \in Codes : limits[code] # NoneVal})
      base     == valid * (QualityScale \div 6)
  IN IF ~Truthy(each_occ) /\ ~Truthy(gen_agg)
       THEN [quality |-> 0, issues |-> issues]
       ELSE [quality |-> IF Len(issues) <= 1 THEN base ELSE base \div 2,
             issues |-> issues]

ValidateAndScore(limits) ==
  LET each_occ == limits["GL_EACH_OCC"]
      gen_agg  == limits["GL_AGGREGATE"]
      issues   == ScoreIssues(limits)
      valid    == Cardinality({code \in Codes : limits[code] # NoneVal})
      \* (valid / 6) * has_both * ratio_ok, times QualityScale
      base     == valid * (QualityScale \div 6)
      withBoth == IF Truthy(each_occ) /\ Truthy(gen_agg) THEN base ELSE base \div 2
      quality  == IF Len(issues) <= 1 THEN withBoth ELSE withBoth \div 2
  IN IF ~Truthy(each_occ) /\ ~Truthy(gen_agg)
       THEN [quality |-> 0, issues |-> issues]
       ELSE [quality |-> quality, issues |-> issues]

\* ------------------------------------------------------ outcome builders
NoLimits == [code \in Codes |-> NoneVal]

\* Python None where an ExtractedCOI is expected.
NoOutcome ==
  [certificate_id |-> 0, policies |-> 0, limits |-> NoLimits,
   source |-> "NONE", quality_score |-> 0]

\* policies is the length of the policy list (0 or 1); limits[code] # NoneVal
\* stands for the coverage of that code, every one with policy_index 0.
BuildExtractedCoi(certificate_id, has_policy_data, limits, quality_score) ==
  [certificate_id |-> certificate_id,
   policies       |-> IF has_policy_data THEN 1 ELSE 0,
   limits         |-> limits,
   source         |-> "REGEX_PARSER",
   quality_score  |-> quality_score]

BuildCoiFromJson(certificate_id, data) ==
  LET coverages == [code \in Codes |->
                      IF data.limits[code] # NoneVal /\ data.limits[code] > 0
                        THEN data.limits[code] ELSE NoneVal]
      n == Cardinality({code \in Codes : coverages[code] # NoneVal})
  IN [certificate_id |-> certificate_id,
      policies       |-> IF data.has_policy_data THEN 1 ELSE 0,
      limits         |-> coverages,
      source         |-> "CLAUDE_HAIKU",
      quality_score  |-> IF n >= 2 THEN HaikuQualityHigh ELSE HaikuQualityLow]

\* ------------------------------------------------------ Claude fallback
\* A service reply is either an error (exception, timeout, malformed JSON)
\* or the parsed JSON object.
ErrorReply == [error |-> TRUE, has_policy_data |-> FALSE, limits |-> NoLimits]

ParseWithText(certificate_id, reply) ==
  IF reply.error THEN NoOutcome ELSE BuildCoiFromJson(certificate_id, reply)

ParseWithImage(certificate_id, reply) ==
  IF reply.error THEN NoOutcome ELSE BuildCoiFromJson(certificate_id, reply)

\* env: api_key (ANTHROPIC_API_KEY set), text_long (len(ocr_text) > 500),
\* text_reply and image_reply (what the service answers to each request).
ParseWithHaiku(certificate_id, env) ==
  IF ~env.api_key THEN NoOutcome
  ELSE LET textResult == ParseWithText(certificate_id, env.text_reply)
       IN IF env.text_long /\ textResult # NoOutcome
             /\ textResult.quality_score >= TextAcceptThreshold
            THEN textResult
            ELSE ParseWithImage(certificate_id, env.image_reply)

\* ---------------------------------------------------------- parse step
\* input: crash (an extractor raises), has_policy_data (a policy number or
\* an effective date was extracted), raw_limits (the six raw amounts).
\* has_source_pdf is hasattr(pages[0], '_source_pdf').
ParseAcord25GlLimits(certificate_id, input, has_source_pdf, env) ==
  IF input.crash THEN NoOutcome
  ELSE
    LET limits  == FilterBizarreValues(input.raw_limits)
        quality == ValidateAndScore(limits).quality
        haiku   == IF env.claude_available /\ has_source_pdf
                     THEN ParseWithHaiku(certificate_id, env) ELSE NoOutcome
        haikuOk == haiku # NoOutcome /\ haiku.quality_score >= AcceptThreshold
        built   == BuildExtractedCoi(certificate_id, input.has_policy_data,
                                     limits, quality)
    IN IF quality = 0 THEN (IF haikuOk THEN haiku ELSE NoOutcome)
       ELSE IF quality >= AcceptThreshold THEN built
       ELSE IF haikuOk THEN haiku
       ELSE built

\* ------------------------------------------------------- sample inputs
LimitsPrimaryOnly ==
  [NoLimits EXCEPT !["GL_EACH_OCC"] = 1000, !["GL_AGGREGATE"] = 2000]

LimitsInvertedFull ==
  [code \in Codes |->
     CASE code = "GL_EACH_OCC"    -> 5000
       [] code = "GL_AGGREGATE"   -> 1000
       [] code = "GL_PERS_ADV"    -> 1000
       [] code = "GL_PROD_AGG"    -> 2000
       [] code = "GL_DAMAGE_PREM" -> 100
       [] OTHER                   -> 5]

SampleLimits == {NoLimits, LimitsPrimaryOnly}

ParseInputs ==
  {[crash |-> TRUE, has_policy_data |-> FALSE, raw_limits |-> NoLimits],
   [crash |-> FALSE, has_policy_data |-> TRUE,
    raw_limits |-> LimitsInvertedFull]}
  \cup {[crash |-> FALSE, has_policy_data |-> FALSE, raw_limits |-> l] :
          l \in SampleLimits}

FullReply ==
  [error |-> FALSE, has_policy_data |-> TRUE, limits |-> LimitsInvertedFull]

NoHaiku ==
  [claude_available |-> FALSE, api_key |-> FALSE, text_long |-> FALSE,
   text_reply |-> ErrorReply, image_reply |-> ErrorReply]

HaikuEnvs ==
  {NoHaiku,
   [claude_available |-> TRUE, api_key |-> TRUE, text_long |-> TRUE,
    text_reply |-> FullReply, image_reply |-> ErrorReply]}

\* ------------------------------------------------------------------ state
VARIABLES
  certStatus,     \* certificates.extraction_status, per certificate id
  runs,           \* committed rows of extraction_runs, row id = position
  outcomes,       \* committed extraction outcome per certificate
  connRuns,       \* extraction_runs as the open connection sees it
  connOutcomes,   \* the outcomes as the open connection sees them
  pc,             \* position of the driver / process_certificate
  queue,          \* certificate_ids selected by process_extraction_queue
  qi,             \* index of the next id of queue to process
  invoked,        \* ids for which the orchestrator was invoked, in order
  escapedAt,      \* position in queue of the last call that raised (0: none)
  cur,            \* certificate_id of the call in progress (0: none)
  run_id,         \* run_id of process_certificate (0: None)
  attempts,       \* acquisition attempts made in this call
  lastOcr,        \* what the last attempt met (orig) and raised
  retried,        \* what the attempts that were followed by another raised
  parseCalls,     \* calls of parse_acord25_gl_limits in this call
  persistCalls,   \* calls of persist_extracted_coi in this call
  extracted,      \* extracted_data of this call
  heuristic,      \* quality the heuristic parser computed in this call
  haikuEnv,       \* what the Claude service would answer in this call
  exc,            \* class of the exception in flight ("" if none)
  in_with,        \* the exception was raised inside the with block
  failure,        \* the step of this call that failed ("" if none)
  result,         \* the dict process_certificate returns
  interrupted,    \* where the process was killed, and the run it was in
  \* tools/test_parser_validation.py: one file through the parse step
  ppc,            \* position of test_file / parse_acord25_gl_limits
  pInput,         \* what the extractors find in the pages of the file
  pEnv,           \* the Claude service as this call meets it
  pLimits,        \* limits, after extract_limits
  pQuality,       \* quality, after validate_and_score
  pHaikuCalls,    \* calls of parse_with_haiku made by this parse
  pRequests,      \* requests sent to the service, in order, with the outcome
  pHaiku,         \* what parse_with_haiku returned (NoOutcome: None)
  pParsed,        \* what parse_acord25_gl_limits returned (NoOutcome: None)
  \* persistence.py: callers of persist_extracted_coi, by worker
  db,             \* committed policies, coverages, policy_clauses; seq is
                  \* the AUTOINCREMENT counter of policies
  dbLock,         \* the connection holding SQLite's write lock ("": none)
  wpc,            \* position of each caller
  wData,          \* extracted, the outcome each caller persists
  wTxn,           \* the tables as the caller's open transaction has them
  policy_id_map,  \* policy_id_map[0] of each caller (0: no entry)
  wExc,           \* class of the exception that ended the call ("": none)
  wPrior,         \* the certificate's rows when the caller deleted them
  cFile,          \* the cache file of one content hash (NoFile: absent)
  cpc,            \* position of each caller in extract_text_from_pdf
  cText,          \* text the caller extracted and is saving
  cOff,           \* offset of the caller's open file object
  cRead,          \* what the caller's last get_cached_text returned
  cPut,           \* texts given to save_to_cache so far
  cLast,          \* text of the save_to_cache that finished last
  cExc,           \* what the caller's extract_text_from_pdf raised ("": none)
  scorer,         \* extract_limits and validate_and_score on one document
  classifier      \* DocumentClassifier.classify on one text

vars ==
  <<certStatus, runs, outcomes, connRuns, connOutcomes, pc, queue, qi, invoked,
    escapedAt, cur, run_id, attempts, lastOcr, retried, parseCalls,
    persistCalls, extracted, heuristic, haikuEnv, exc, in_with, failure,
    result, interrupted, ppc, pInput, pEnv, pLimits, pQuality, pHaikuCalls,
    pRequests, pHaiku, pParsed, db, dbLock, wpc, wData, wTxn, policy_id_map,
    wExc, wPrior, cFile, cpc, cText, cOff, cRead, cPut, cLast, cExc,
    scorer, classifier>>

storeVars == <<certStatus, runs, outcomes>>
connVars == <<connRuns, connOutcomes>>
driverVars == <<queue, qi, invoked, escapedAt>>
callVars ==
  <<cur, run_id, attempts, lastOcr, retried, parseCalls, persistCalls,
    extracted, heuristic, haikuEnv, exc, in_with, failure, result>>

runnerVars ==
  <<storeVars, connVars, pc, driverVars, callVars, interrupted>>
parserVars ==
  <<ppc, pInput, pEnv, pLimits, pQuality, pHaikuCalls, pRequests, pHaiku,
    pParsed>>

persistVars ==
  <<db, dbLock, wpc, wData, wTxn, policy_id_map, wExc, wPrior>>

\* What the runner and its driver leave alone.
cacheVars == <<cFile, cpc, cText, cOff, cRead, cPut, cLast, cExc>>

toolVars == <<scorer, classifier>>

sideVars == <<parserVars, persistVars, cacheVars, toolVars>>

NoResult == [status |-> "", error |-> "", extraction_run_id |-> 0]
NotInterrupted == [at |-> "", run_id |-> 0]
NoAttempt == [orig |-> "", raised |-> ""]

InRunPcs ==
  {"validate", "connect", "created", "ocr", "acquired", "parsing", "persist",
   "persisted", "commit", "raised", "return", "escaped"}

NoInput == [crash |-> FALSE, has_policy_data |-> FALSE, raw_limits |-> NoLimits]

ParserIdle ==
  /\ ppc = "idle"
  /\ pInput = NoInput
  /\ pEnv = NoHaiku
  /\ pLimits = NoLimits
  /\ pQuality = 0
  /\ pHaikuCalls = 0
  /\ pRequests = <<>>
  /\ pHaiku = NoOutcome
  /\ pParsed = NoOutcome

\* persist_extracted_coi has two callers at a time, each on a connection
\* of its own.
Workers == {"w1", "w2"}

EmptyDb ==
  [policies |-> {}, coverages |-> {}, policy_clauses |-> {}, seq |-> 0]

NoPrior ==
  [policies |-> {}, coverages |-> {}, policy_clauses |-> {}, deleted |-> FALSE]

PersistIdle ==
  /\ db = EmptyDb
  /\ dbLock = ""
  /\ wpc = [w \in Workers |-> "idle"]
  /\ wData = [w \in Workers |-> NoOutcome]
  /\ wTxn = [w \in Workers |-> EmptyDb]
  /\ policy_id_map = [w \in Workers |-> 0]
  /\ wExc = [w \in Workers |-> ""]
  /\ wPrior = [w \in Workers |-> NoPrior]

\* The cache holds no file for the content hash.
NoFile == [exists |-> FALSE, data |-> <<>>]

\* get_cached_text returned None.
Miss == [hit |-> FALSE, text |-> <<>>]

CacheIdle ==
  /\ cFile = NoFile
  /\ cpc = [w \in Workers |-> "idle"]
  /\ cText = [w \in Workers |-> <<>>]
  /\ cOff = [w \in Workers |-> 0]
  /\ cRead = [w \in Workers |-> Miss]
  /\ cPut = {}
  /\ cLast = <<>>
  /\ cExc = [w \in Workers |-> ""]

\* No document is being scored.
ScorerIdle ==
  scorer = [pc |-> "idle", raw |-> NoLimits, limits |-> NoLimits,
            quality |-> 0, issues |-> <<>>]

\* ClassificationResult where classify has not returned.
NoClassification ==
  [doc_type |-> "NONE", confidence |-> 0, indicators |-> <<>>]

\* No text is being classified.
ClassifierIdle ==
  classifier = [pc |-> "idle", text |-> <<>>, min_confidence |-> 0,
                result |-> NoClassification]

RunnerInit ==
  /\ certStatus = [c \in Certs |-> "PENDING"]
  /\ runs = <<>>
  /\ outcomes = [c \in Certs |-> NoOutcome]
  /\ connRuns = <<>>
  /\ connOutcomes = [c \in Certs |-> NoOutcome]
  /\ pc = "idle"
  /\ queue = <<>>
  /\ qi = 1
  /\ invoked = <<>>
  /\ escapedAt = 0
  /\ cur = 0
  /\ run_id = 0
  /\ attempts = 0
  /\ lastOcr = NoAttempt
  /\ retried = {}
  /\ parseCalls = 0
  /\ persistCalls = 0
  /\ extracted = NoOutcome
  /\ heuristic = 0
  /\ haikuEnv = NoHaiku
  /\ exc = ""
  /\ in_with = FALSE
  /\ failure = ""
  /\ result = NoResult
  /\ interrupted = NotInterrupted

Init ==
  RunnerInit /\ ParserIdle /\ PersistIdle /\ CacheIdle /\ ScorerIdle
    /\ ClassifierIdle

\* ------------------------------------------------------- store helpers
Min(a, b) == IF a <= b THEN a ELSE b

\* ORDER BY id
SortedSeq(S) ==
  CHOOSE s \in [1..Cardinality(S) -> S] :
    \A i, j \in 1..Cardinality(S) : i < j => s[i] < s[j]

\* SELECT id FROM certificates WHERE extraction_status = 'PENDING'
\* ORDER BY id LIMIT batch_size
SelectPending(status, batch_size) ==
  LET pending == SortedSeq({c \in Certs : status[c] = "PENDING"})
  IN SubSeq(pending, 1, Min(batch_size, Len(pending)))

\* SELECT id FROM certificates WHERE extraction_status <> 'PENDING'
\* ORDER BY id LIMIT limit
SelectNotPending(status, limit) ==
  LET others == SortedSeq({c \in Certs : status[c] # "PENDING"})
  IN SubSeq(others, 1, Min(limit, Len(others)))

SeqToSet(s) == {s[i] : i \in 1..Len(s)}

CreateExtractionRun(table, certificate_id) ==
  Append(table, [certificate_id |-> certificate_id, status |-> "STARTED",
                 error_detail |-> ""])

\* UPDATE extraction_runs SET ... WHERE id = run_id: no row, no change.
UpdateExtractionStatus(table, id, status, error_detail) ==
  [i \in DOMAIN table |->
     IF i # id THEN table[i]
     ELSE IF status = "SUCCESS" THEN [table[i] EXCEPT !.status = status]
     ELSE [table[i] EXCEPT !.status = status, !.error_detail = error_detail]]

\* replaceExtractionOutcome on the caller's connection.
DbPersistExtractedCoi(table, extracted_data) ==
  [table EXCEPT ![extracted_data.certificate_id] = extracted_data]

\* _db_transaction, lines 37-40: whatever the with block raised leaves the
\* context manager as a DatabaseException, after the rollback.
DbTransactionExit(raised) == "DatabaseException"

\* The except clauses of process_certificate: the status each one writes on
\* the run ("" for none) and the status it returns.
Handler(caught) ==
  CASE caught = "OCRException" ->
         [write |-> "OCR_FAILED", status |-> "OCR_FAILED",
          error |-> "OCR falhou apos tentativas"]
    [] caught = "ParsingException" ->
         [write |-> "PARSING_FAILED", status |-> "PARSING_FAILED",
          error |-> "Parsing falhou"]
    [] caught = "DatabaseException" ->
         [write |-> "", status |-> "FAILED",
          error |-> "Erro no banco de dados"]
    [] OTHER ->
         [write |-> "FAILED", status |-> "FAILED", error |-> "Erro inesperado"]

\* retry=retry_if_exception_type(OCRException)
RetryIfBug(raised) == raised # "ok"
RetryIf(raised) == raised = "OCRException"

\* What one call of _extract_text_with_retry's body raises: a failure inside
\* extract_text_from_pdf, of any class ("Exception" for a class other than
\* OCRException), is re-raised as OCRException; the import of line 92 is
\* outside the try and fails with its own class (OSError when cache.py
\* cannot create its directory on import).
RaisedByAttempt(outcome) ==
  IF outcome \in {"OCRException", "Exception"} THEN "OCRException" ELSE outcome

\* _parse_with_timeout builds the page without a _source_pdf attribute.
RunnerPagesHaveSourcePdf == FALSE

\* The certificate status recorded for a returned run status.
CertificateStatusFor(status) == IF status = "SUCCESS" THEN "SUCCESS" ELSE "FAILED"

ResetCall ==
  /\ cur' = 0
  /\ run_id' = 0
  /\ attempts' = 0
  /\ lastOcr' = NoAttempt
  /\ retried' = {}
  /\ parseCalls' = 0
  /\ persistCalls' = 0
  /\ extracted' = NoOutcome
  /\ heuristic' = 0
  /\ haikuEnv' = NoHaiku
  /\ exc' = ""
  /\ in_with' = FALSE
  /\ failure' = ""
  /\ result' = NoResult

\* ---------------------------------------------------------------- driver
\* process_extraction_queue, lines 12-34
QueueSelect(batch_size) ==
  /\ pc = "idle"
  /\ qi > Len(queue)
  /\ queue' = SelectPending(certStatus, batch_size)
  /\ qi' = 1
  /\ invoked' = <<>>
  /\ escapedAt' = 0
  /\ interrupted' = NotInterrupted
  /\ UNCHANGED <<storeVars, connVars, pc, callVars>>
  /\ UNCHANGED sideVars

\* process_extraction_queue, lines 36-38: the next id of the loop
Invoke ==
  /\ pc = "idle"
  /\ qi <= Len(queue)
  /\ Len(runs) < MaxRuns
  /\ invoked' = Append(invoked, queue[qi])
  /\ cur' = queue[qi]
  /\ pc' = "validate"
  /\ UNCHANGED <<storeVars, connVars, queue, qi, escapedAt, run_id, attempts,
                 lastOcr, retried, parseCalls, persistCalls, extracted,
                 heuristic, haikuEnv, exc, in_with, failure, result,
                 interrupted>>
  /\ UNCHANGED sideVars

\* process_extraction_queue, lines 39-41: log and continue
DriverCatchBug ==
  /\ pc = "escaped"
  /\ escapedAt' = qi
  /\ qi' = Len(queue) + 1
  /\ pc' = "idle"
  /\ ResetCall
  /\ UNCHANGED <<storeVars, connVars, queue, invoked, interrupted>>
  /\ UNCHANGED sideVars

DriverCatch ==
  /\ pc = "escaped"
  /\ escapedAt' = qi
  /\ qi' = qi + 1
  /\ pc' = "idle"
  /\ ResetCall
  /\ UNCHANGED <<storeVars, connVars, queue, invoked, interrupted>>
  /\ UNCHANGED sideVars

\* run_extraction_for_certificate after process_certificate returned
Return ==
  /\ pc = "return"
  /\ certStatus' = [certStatus EXCEPT ![cur] = CertificateStatusFor(result.status)]
  /\ qi' = qi + 1
  /\ pc' = "idle"
  /\ ResetCall
  /\ UNCHANGED <<runs, outcomes, connVars, queue, invoked, escapedAt,
                 interrupted>>
  /\ UNCHANGED sideVars

\* ---------------------------------------------------- process_certificate
\* lines 160-175; pdf_exists is Path(pdf_path).exists()
Validate(pdf_exists) ==
  /\ pc = "validate"
  /\ IF pdf_exists
       THEN /\ result' = [status |-> "FAILED", error |-> "", extraction_run_id |-> 0]
            /\ pc' = "connect"
            /\ UNCHANGED exc
       ELSE /\ exc' = "FileNotFoundError"
            /\ pc' = "escaped"
            /\ UNCHANGED result
  /\ UNCHANGED <<storeVars, connVars, driverVars, cur, run_id, attempts,
                 lastOcr, retried, parseCalls, persistCalls, extracted,
                 heuristic, haikuEnv, in_with, failure, interrupted>>
  /\ UNCHANGED sideVars

\* lines 178-181: open the connection and insert the run
StartRun(outcome) ==
  /\ pc = "connect"
  /\ CASE outcome = "ok" ->
            /\ connRuns' = CreateExtractionRun(runs, cur)
            /\ run_id' = Len(runs) + 1
            /\ result' = [result EXCEPT !.extraction_run_id = Len(runs) + 1]
            /\ pc' = "created"
            /\ UNCHANGED <<exc, in_with, failure>>
       [] outcome = "connect_failed" ->
            /\ exc' = "OperationalError"
            /\ in_with' = FALSE
            /\ failure' = "connect"
            /\ pc' = "raised"
            /\ UNCHANGED <<connRuns, run_id, result>>
       [] OTHER ->
            /\ exc' = "OperationalError"
            /\ in_with' = TRUE
            /\ failure' = "create_run"
            /\ pc' = "raised"
            /\ UNCHANGED <<connRuns, run_id, result>>
  /\ UNCHANGED <<storeVars, connOutcomes, driverVars, cur, attempts, lastOcr,
                 retried, parseCalls, persistCalls, extracted, heuristic,
                 haikuEnv, interrupted>>
  /\ UNCHANGED sideVars

\* line 184
MarkOcrInProgress ==
  /\ pc = "created"
  /\ connRuns' = UpdateExtractionStatus(connRuns, run_id, "OCR_IN_PROGRESS", "")
  /\ pc' = "ocr"
  /\ UNCHANGED <<storeVars, connOutcomes, driverVars, callVars, interrupted>>
  /\ UNCHANGED sideVars

\* line 185: one attempt of _extract_text_with_retry
OcrAttempt(outcome) ==
  /\ pc = "ocr"
  \* the import can fail only the first time it runs
  /\ outcome = "OSError" => attempts = 0
  /\ LET raised == RaisedByAttempt(outcome)
         attempt_number == attempts + 1
     IN /\ attempts' = attempt_number
        /\ lastOcr' = [orig |-> outcome, raised |-> raised]
        /\ retried' = IF attempts = 0 THEN {} ELSE retried \cup {lastOcr.raised}
        /\ IF raised = "ok"
             THEN /\ pc' = "acquired"
                  /\ UNCHANGED <<exc, in_with, failure>>
             ELSE IF RetryIf(raised) /\ attempt_number < StopAfterAttempt
             THEN /\ pc' = "ocr"
                  /\ UNCHANGED <<exc, in_with, failure>>
             ELSE /\ exc' = IF RetryIf(raised) THEN "RetryError" ELSE raised
                  /\ in_with' = TRUE
                  /\ failure' = "acquisition"
                  /\ pc' = "raised"
  /\ UNCHANGED <<storeVars, connVars, driverVars, cur, run_id, parseCalls,
                 persistCalls, extracted, heuristic, haikuEnv, result,
                 interrupted>>
  /\ UNCHANGED sideVars

\* line 188
MarkParsingBug ==
  /\ pc = "acquired"
  /\ connRuns' = UpdateExtractionStatus(connRuns, run_id, "STARTED", "")
  /\ pc' = "parsing"
  /\ UNCHANGED <<storeVars, connOutcomes, driverVars, callVars, interrupted>>
  /\ UNCHANGED sideVars

MarkParsing ==
  /\ pc = "acquired"
  /\ connRuns' = UpdateExtractionStatus(connRuns, run_id, "PARSING", "")
  /\ pc' = "parsing"
  /\ UNCHANGED <<storeVars, connOutcomes, driverVars, callVars, interrupted>>
  /\ UNCHANGED sideVars

\* line 189: _parse_with_timeout
ParseWithTimeout(input, env) ==
  /\ pc = "parsing"
  /\ parseCalls' = parseCalls + 1
  /\ haikuEnv' = env
  /\ heuristic' = IF input.crash THEN 0
                  ELSE ValidateAndScore(FilterBizarreValues(input.raw_limits)).quality
  /\ LET parsed == ParseAcord25GlLimits(cur, input, RunnerPagesHaveSourcePdf, env)
     IN IF parsed = NoOutcome
          THEN /\ exc' = "ParsingException"
               /\ in_with' = TRUE
               /\ failure' = "parsing"
               /\ pc' = "raised"
               /\ UNCHANGED extracted
          ELSE /\ extracted' = parsed
               /\ pc' = "persist"
               /\ UNCHANGED <<exc, in_with, failure>>
  /\ UNCHANGED <<storeVars, connVars, driverVars, cur, run_id, attempts,
                 lastOcr, retried, persistCalls, result, interrupted>>
  /\ UNCHANGED sideVars

\* line 192: _persist_extraction
PersistExtractionBug(ok) ==
  /\ pc = "persist"
  /\ persistCalls' = persistCalls + 1
  /\ connOutcomes' = IF ok THEN DbPersistExtractedCoi(connOutcomes, extracted)
                     ELSE connOutcomes
  /\ pc' = "persisted"
  /\ UNCHANGED <<storeVars, connRuns, driverVars, cur, run_id, attempts,
                 lastOcr, retried, parseCalls, extracted, heuristic, haikuEnv,
                 exc, in_with, failure, result, interrupted>>
  /\ UNCHANGED sideVars

PersistExtraction(ok) ==
  /\ pc = "persist"
  /\ persistCalls' = persistCalls + 1
  /\ IF ok
       THEN /\ connOutcomes' = DbPersistExtractedCoi(connOutcomes, extracted)
            /\ pc' = "persisted"
            /\ UNCHANGED <<exc, in_with, failure>>
       ELSE /\ exc' = "DatabaseException"
            /\ in_with' = TRUE
            /\ failure' = "persistence"
            /\ pc' = "raised"
            /\ UNCHANGED connOutcomes
  /\ UNCHANGED <<storeVars, connRuns, driverVars, cur, run_id, attempts,
                 lastOcr, retried, parseCalls, extracted, heuristic, haikuEnv,
                 result, interrupted>>
  /\ UNCHANGED sideVars

\* lines 195-196
MarkSuccess ==
  /\ pc = "persisted"
  /\ connRuns' = UpdateExtractionStatus(connRuns, run_id, "SUCCESS", "")
  /\ result' = [result EXCEPT !.status = "SUCCESS"]
  /\ pc' = "commit"
  /\ UNCHANGED <<storeVars, connOutcomes, driverVars, cur, run_id, attempts,
                 lastOcr, retried, parseCalls, persistCalls, extracted,
                 heuristic, haikuEnv, exc, in_with, failure, interrupted>>
  /\ UNCHANGED sideVars

\* _db_transaction, line 35: the commit that ends the with block
Commit(ok) ==
  /\ pc = "commit"
  /\ IF ok
       THEN /\ runs' = connRuns
            /\ outcomes' = connOutcomes
            /\ pc' = "return"
            /\ UNCHANGED <<exc, in_with, failure>>
       ELSE /\ exc' = "OperationalError"
            /\ in_with' = TRUE
            /\ failure' = "commit"
            /\ pc' = "raised"
            /\ UNCHANGED <<runs, outcomes>>
  /\ UNCHANGED <<certStatus, connVars, driverVars, cur, run_id, attempts,
                 lastOcr, retried, parseCalls, persistCalls, extracted,
                 heuristic, haikuEnv, result, interrupted>>
  /\ UNCHANGED sideVars

\* _db_transaction, lines 37-42, then the except clauses, lines 204-242
HandleException ==
  /\ pc = "raised"
  /\ LET caught == IF in_with THEN DbTransactionExit(exc) ELSE exc
         h == Handler(caught)
     IN /\ runs' = IF h.write # "" /\ run_id # 0
                     THEN UpdateExtractionStatus(runs, run_id, h.write, caught)
                     ELSE runs
        /\ connRuns' = runs'
        /\ connOutcomes' = outcomes
        /\ result' = [result EXCEPT !.status = h.status, !.error = h.error]
        /\ exc' = caught
  /\ pc' = "return"
  /\ UNCHANGED <<certStatus, outcomes, driverVars, cur, run_id, attempts,
                 lastOcr, retried, parseCalls, persistCalls, extracted,
                 heuristic, haikuEnv, in_with, failure, interrupted>>
  /\ UNCHANGED sideVars

\* The process is killed: the open connection, and what it had not
\* committed, are gone.
Interrupt ==
  /\ pc \in InRunPcs
  /\ interrupted' = [at |-> pc, run_id |-> run_id]
  /\ connRuns' = runs
  /\ connOutcomes' = outcomes
  /\ pc' = "idle"
  /\ queue' = <<>>
  /\ qi' = 1
  /\ invoked' = <<>>
  /\ escapedAt' = 0
  /\ ResetCall
  /\ UNCHANGED storeVars
  /\ UNCHANGED sideVars

\* ---------------------------------------------------------- reset scripts
\* A mutant of ResetCertificates: the reset also stops the call in progress.
ResetCertificatesCancelsRun(ids) ==
  /\ certStatus' = [c \in Certs |-> IF c \in ids THEN "PENDING" ELSE certStatus[c]]
  /\ pc' = IF cur \in ids THEN "idle" ELSE pc
  /\ UNCHANGED <<runs, outcomes, connVars, driverVars, callVars, interrupted>>
  /\ UNCHANGED sideVars

\* reset_specific_certs.reset_certificates
ResetCertificates(ids) ==
  /\ certStatus' = [c \in Certs |-> IF c \in ids THEN "PENDING" ELSE certStatus[c]]
  /\ UNCHANGED <<runs, outcomes, connVars, pc, driverVars, callVars,
                 interrupted>>
  /\ UNCHANGED sideVars

\* reset_extraction_status.reset_some_certificates_to_pending
ResetSomeCertificatesToPending(limit) ==
  /\ LET ids == SeqToSet(SelectNotPending(certStatus, limit))
     IN certStatus' = [c \in Certs |-> IF c \in ids THEN "PENDING" ELSE certStatus[c]]
  /\ UNCHANGED <<runs, outcomes, connVars, pc, driverVars, callVars,
                 interrupted>>
  /\ UNCHANGED sideVars

OcrOutcomes == {"ok", "OCRException", "Exception", "OSError"}

Next ==
  \/ \E b \in 1..MaxBatch : QueueSelect(b)
  \/ Invoke
  \/ DriverCatch
  \/ Return
  \/ \E pdf_exists \in BOOLEAN : Validate(pdf_exists)
  \/ \E o \in {"ok", "connect_failed", "insert_failed"} : StartRun(o)
  \/ MarkOcrInProgress
  \/ \E o \in OcrOutcomes : OcrAttempt(o)
  \/ MarkParsing
  \/ \E input \in ParseInputs, env \in HaikuEnvs : ParseWithTimeout(input, env)
  \/ \E ok \in BOOLEAN : PersistExtraction(ok)
  \/ MarkSuccess
  \/ \E ok \in BOOLEAN : Commit(ok)
  \/ HandleException
  \/ Interrupt
  \/ \E ids \in SUBSET Certs : ResetCertificates(ids)
  \/ \E limit \in 1..MaxBatch : ResetSomeCertificatesToPending(limit)

Spec == Init /\ [][Next]_vars

TypeOK ==
  /\ certStatus \in [Certs -> {"PENDING", "SUCCESS", "FAILED"}]
  /\ pc \in InRunPcs \cup {"idle"}
  /\ Len(runs) <= MaxRuns
  /\ \A i \in DOMAIN runs : runs[i].status \in ExtractionStatus
  /\ attempts \in 0..StopAfterAttempt
  /\ lastOcr.raised \in {"", "ok", "OCRException", "OSError"}
  /\ retried \subseteq {"OCRException", "OSError"}
  /\ escapedAt \in 0..Len(queue)

\* ------------------------------------ the parse step, one file at a time
\* tools/test_parser_validation.py sets pages[0]._source_pdf before it calls
\* parse_acord25_gl_limits, so the Claude fallback is within reach.
ToolPagesHaveSourcePdf == TRUE

LimitsOutOfRange ==
  [code \in Codes |->
     CASE code = "GL_EACH_OCC"    -> 50
       [] code = "GL_AGGREGATE"   -> 150
       [] code = "GL_PERS_ADV"    -> 50000
       [] code = "GL_PROD_AGG"    -> 99
       [] code = "GL_DAMAGE_PREM" -> 3000
       [] OTHER                   -> 150]

ToolLimits ==
  {NoLimits, LimitsPrimaryOnly, LimitsInvertedFull, LimitsOutOfRange}

ToolInputs ==
  {[crash |-> TRUE, has_policy_data |-> FALSE, raw_limits |-> NoLimits]}
  \cup [crash : {FALSE}, has_policy_data : BOOLEAN, raw_limits : ToolLimits]

\* A reply with a single limit: _build_coi_from_json scores it 0.5.
OneReply ==
  [error |-> FALSE, has_policy_data |-> FALSE,
   limits |-> [NoLimits EXCEPT !["GL_EACH_OCC"] = 1000]]

Replies == {ErrorReply, OneReply, FullReply}

\* client_ok: anthropic.Anthropic(api_key=...) returns a client.
ToolEnvs ==
  [claude_available : BOOLEAN, api_key : BOOLEAN, client_ok : BOOLEAN,
   text_long : BOOLEAN, text_reply : Replies, image_reply : Replies]

ResetParser ==
  /\ pInput' = NoInput
  /\ pEnv' = NoHaiku
  /\ pLimits' = NoLimits
  /\ pQuality' = 0
  /\ pHaikuCalls' = 0
  /\ pRequests' = <<>>
  /\ pHaiku' = NoOutcome
  /\ pParsed' = NoOutcome

\* build_extracted_coi on what this parse extracted
HeuristicOutcome ==
  BuildExtractedCoi(1, pInput.has_policy_data, pLimits, pQuality)

\* test_file, lines 100-103, and parse_acord25_gl_limits, lines 280-284; an
\* extractor that raises is caught at lines 323-325 and the parse is None.
TestFile(input, env) ==
  /\ ppc = "idle"
  /\ pInput' = input
  /\ pEnv' = env
  /\ IF input.crash
       THEN /\ pLimits' = NoLimits
            /\ pQuality' = 0
            /\ ppc' = "returned"
       ELSE /\ pLimits' = FilterBizarreValues(input.raw_limits)
            /\ pQuality' = ValidateAndScore(pLimits').quality
            /\ ppc' = "scored"
  /\ UNCHANGED <<pHaikuCalls, pRequests, pHaiku, pParsed, runnerVars,
                 persistVars, cacheVars,
                 toolVars>>

\* parse_acord25_gl_limits, lines 286-289, 302-309 and 319-321: accept the
\* heuristic outcome, call parse_with_haiku, or go on without the fallback
EscalateBug ==
  /\ ppc = "scored"
  /\ IF pEnv.claude_available /\ ToolPagesHaveSourcePdf
       THEN /\ pHaikuCalls' = pHaikuCalls + 1
            /\ ppc' = "haiku"
            /\ UNCHANGED pParsed
       ELSE /\ pParsed' = IF pQuality = 0 THEN NoOutcome ELSE HeuristicOutcome
            /\ ppc' = "returned"
            /\ UNCHANGED pHaikuCalls
  /\ UNCHANGED <<pInput, pEnv, pLimits, pQuality, pRequests, pHaiku,
                 runnerVars, persistVars, cacheVars,
                 toolVars>>

Escalate ==
  /\ ppc = "scored"
  /\ IF pQuality >= AcceptThreshold
       THEN /\ pParsed' = HeuristicOutcome
            /\ ppc' = "returned"
            /\ UNCHANGED pHaikuCalls
       ELSE IF pEnv.claude_available /\ ToolPagesHaveSourcePdf
       THEN /\ pHaikuCalls' = pHaikuCalls + 1
            /\ ppc' = "haiku"
            /\ UNCHANGED pParsed
       ELSE /\ pParsed' = IF pQuality = 0 THEN NoOutcome ELSE HeuristicOutcome
            /\ ppc' = "returned"
            /\ UNCHANGED pHaikuCalls
  /\ UNCHANGED <<pInput, pEnv, pLimits, pQuality, pRequests, pHaiku,
                 runnerVars, persistVars, cacheVars,
                 toolVars>>

\* parse_with_haiku, lines 41-49; an exception of the client constructor
\* leaves parse_with_haiku and is caught at lines 297 and 316
HaikuStart ==
  /\ ppc = "haiku"
  /\ ppc' = IF ~pEnv.api_key \/ ~pEnv.client_ok THEN "haiku_returned"
            ELSE IF pEnv.text_long THEN "text"
            ELSE "image"
  /\ UNCHANGED <<pInput, pEnv, pLimits, pQuality, pHaikuCalls, pRequests,
                 pHaiku, pParsed, runnerVars, persistVars, cacheVars,
                 toolVars>>

\* parse_with_haiku, lines 50-55
TextRequest ==
  /\ ppc = "text"
  /\ LET textResult == ParseWithText(1, pEnv.text_reply)
     IN /\ pRequests' = Append(pRequests, [kind |-> "text", outcome |-> textResult])
        /\ IF textResult # NoOutcome
              /\ textResult.quality_score >= TextAcceptThreshold
             THEN /\ pHaiku' = textResult
                  /\ ppc' = "haiku_returned"
             ELSE /\ ppc' = "image"
                  /\ UNCHANGED pHaiku
  /\ UNCHANGED <<pInput, pEnv, pLimits, pQuality, pHaikuCalls, pParsed,
                 runnerVars, persistVars, cacheVars,
                 toolVars>>

\* parse_with_haiku, lines 57-65
ImageRequest ==
  /\ ppc = "image"
  /\ LET imageResult == ParseWithImage(1, pEnv.image_reply)
     IN /\ pRequests' = Append(pRequests, [kind |-> "image", outcome |-> imageResult])
        /\ pHaiku' = imageResult
  /\ ppc' = "haiku_returned"
  /\ UNCHANGED <<pInput, pEnv, pLimits, pQuality, pHaikuCalls, pParsed,
                 runnerVars, persistVars, cacheVars,
                 toolVars>>

\* parse_acord25_gl_limits, lines 294-300 and 313-321
HaikuReturnedBug ==
  /\ ppc = "haiku_returned"
  /\ pParsed' = IF pHaiku # NoOutcome /\ pHaiku.quality_score >= AcceptThreshold
                  THEN pHaiku
                ELSE NoOutcome
  /\ ppc' = "returned"
  /\ UNCHANGED <<pInput, pEnv, pLimits, pQuality, pHaikuCalls, pRequests,
                 pHaiku, runnerVars, persistVars, cacheVars,
                 toolVars>>

HaikuReturned ==
  /\ ppc = "haiku_returned"
  /\ pParsed' = IF pHaiku # NoOutcome /\ pHaiku.quality_score >= AcceptThreshold
                  THEN pHaiku
                ELSE IF pQuality = 0 THEN NoOutcome
                ELSE HeuristicOutcome
  /\ ppc' = "returned"
  /\ UNCHANGED <<pInput, pEnv, pLimits, pQuality, pHaikuCalls, pRequests,
                 pHaiku, runnerVars, persistVars, cacheVars,
                 toolVars>>

\* test_file, lines 105-151: the result is recorded, the next file follows
ToolReport ==
  /\ ppc = "returned"
  /\ ppc' = "idle"
  /\ ResetParser
  /\ UNCHANGED <<runnerVars, persistVars, cacheVars,
                 toolVars>>

NextParser ==
  \/ \E input \in ToolInputs, env \in ToolEnvs : TestFile(input, env)
  \/ Escalate
  \/ HaikuStart
  \/ TextRequest
  \/ ImageRequest
  \/ HaikuReturned
  \/ ToolReport

SpecParser == Init /\ [][NextParser]_vars

\* ---------------------------------------------------------------------
\* The OCR text cache: extract_text_from_pdf called by several runs for
\* files of one content hash.  The cache file is a sequence of units; a
\* caller's open file object has its own offset.
\* ---------------------------------------------------------------------

\* Units one write of the buffered file object puts into the file.
BufferUnits == 2

HeadUnit == [k |-> "head", w |-> "", i |-> 0]

EndUnit == [k |-> "end", w |-> "", i |-> 0]

NulUnit == [k |-> "nul", w |-> "", i |-> 0]

\* The text caller w extracts, n units long.
Text(w, n) == [i \in 1..n |-> [k |-> "text", w |-> w, i |-> i]]

\* json.dump(data, f): the header keys, the text, the closing of the object.
JsonDump(text) == <<HeadUnit>> \o text \o <<EndUnit>>

\* json.load(f) and data['text']: any malformed content raises, and the
\* except clause of get_cached_text turns that into None.
JsonLoad(data) ==
  IF /\ Len(data) >= 2
     /\ data[1] = HeadUnit
     /\ data[Len(data)] = EndUnit
     /\ \A i \in 2..(Len(data) - 1) : data[i].k = "text"
  THEN [hit |-> TRUE, text |-> SubSeq(data, 2, Len(data) - 1)]
  ELSE Miss

\* write(2) of chunk at offset off: bytes before the offset that the file
\* does not have read as zeros, bytes after the chunk stay.
WriteAt(data, off, chunk) ==
  [i \in 1..(IF Len(data) > off + Len(chunk) THEN Len(data)
              ELSE off + Len(chunk)) |->
     IF i > off /\ i <= off + Len(chunk) THEN chunk[i - off]
     ELSE IF i <= Len(data) THEN data[i]
     ELSE NulUnit]

\* extract_text_from_pdf, lines 58-61: the lookup, and the return of a
\* cached text that is not empty.
GetCachedText(w) ==
  /\ cpc[w] = "idle"
  /\ LET cached_text == IF cFile.exists THEN JsonLoad(cFile.data) ELSE Miss
     IN /\ cRead' = [cRead EXCEPT ![w] = cached_text]
        /\ cpc' = [cpc EXCEPT ![w] =
                     IF cached_text.hit /\ cached_text.text # <<>>
                     THEN "idle" ELSE "ocr"]
  /\ cExc' = [cExc EXCEPT ![w] = ""]
  /\ UNCHANGED <<cFile, cText, cOff, cPut, cLast, runnerVars, parserVars,
                 persistVars, toolVars>>

\* A mutant of ExtractViaOcr: the text of a failed extraction, the empty
\* one, goes on to save_to_cache.
ExtractViaOcrSavesOnFailure(w, n) ==
  /\ cpc[w] = "ocr"
  /\ cText' = [cText EXCEPT ![w] = Text(w, n)]
  /\ cpc' = [cpc EXCEPT ![w] = "save"]
  /\ cExc' = [cExc EXCEPT ![w] = IF n = 0 THEN "OCRException" ELSE ""]
  /\ UNCHANGED <<cFile, cOff, cRead, cPut, cLast, runnerVars, parserVars,
                 persistVars, toolVars>>

\* _extract_via_ocr: n units of text, or, with no text on any page or a
\* failure of the engine (n = 0), OCRException, which leaves
\* extract_text_from_pdf before save_to_cache.
ExtractViaOcr(w, n) ==
  /\ cpc[w] = "ocr"
  /\ IF n = 0
     THEN /\ cExc' = [cExc EXCEPT ![w] = "OCRException"]
          /\ cpc' = [cpc EXCEPT ![w] = "idle"]
          /\ UNCHANGED cText
     ELSE /\ cText' = [cText EXCEPT ![w] = Text(w, n)]
          /\ cpc' = [cpc EXCEPT ![w] = "save"]
          /\ UNCHANGED cExc
  /\ UNCHANGED <<cFile, cOff, cRead, cPut, cLast, runnerVars, parserVars,
                 persistVars, toolVars>>

\* open(cache_file, 'w'): creates or truncates the file.
OpenCacheFile(w) ==
  /\ cpc[w] = "save"
  /\ cFile' = [exists |-> TRUE, data |-> <<>>]
  /\ cOff' = [cOff EXCEPT ![w] = 0]
  /\ cPut' = cPut \cup {cText[w]}
  /\ cpc' = [cpc EXCEPT ![w] = "write"]
  /\ UNCHANGED <<cText, cRead, cLast, cExc, runnerVars, parserVars,
                 persistVars, toolVars>>

\* One flush of the file object; the last one is that of close().
WriteChunk(w) ==
  /\ cpc[w] = "write"
  /\ LET payload == JsonDump(cText[w])
         rest == Len(payload) - cOff[w]
         n == IF rest > BufferUnits THEN BufferUnits ELSE rest
         chunk == SubSeq(payload, cOff[w] + 1, cOff[w] + n)
     IN /\ cFile' = [cFile EXCEPT !.data = WriteAt(cFile.data, cOff[w], chunk)]
        /\ cOff' = [cOff EXCEPT ![w] = cOff[w] + n]
        /\ cpc' = [cpc EXCEPT ![w] = IF n = rest THEN "idle" ELSE "write"]
        /\ cLast' = IF n = rest THEN cText[w] ELSE cLast
  /\ UNCHANGED <<cText, cRead, cPut, cExc, runnerVars, parserVars,
                 persistVars, toolVars>>

NextCache ==
  \E w \in Workers :
    \/ GetCachedText(w)
    \/ \E n \in 0..MaxText : ExtractViaOcr(w, n)
    \/ OpenCacheFile(w)
    \/ WriteChunk(w)

SpecCache == Init /\ [][NextCache]_vars


\* ------------------------------- persistence.py: persist_extracted_coi
\* The rows of one certificate: its policies, and the coverages and clauses
\* that hang on them.
PolicyIds(d, certificate_id) ==
  {r.id : r \in {q \in d.policies : q.certificate_id = certificate_id}}

CertificateRows(d, certificate_id) ==
  [policies |-> {r \in d.policies : r.certificate_id = certificate_id},
   coverages |-> {r \in d.coverages :
                    r.policy_id \in PolicyIds(d, certificate_id)},
   policy_clauses |-> {r \in d.policy_clauses :
                         r.policy_id \in PolicyIds(d, certificate_id)}]

\* lines 26-49: the three DELETEs for one certificate_id
DeleteCertificateRowsKeepsPolicies(d, certificate_id) ==
  [d EXCEPT
     !.policy_clauses = {r \in d.policy_clauses :
                           r.policy_id \notin PolicyIds(d, certificate_id)},
     !.coverages = {r \in d.coverages :
                      r.policy_id \notin PolicyIds(d, certificate_id)}]

DeleteCertificateRowsUnscoped(d, certificate_id) ==
  [d EXCEPT !.policy_clauses = {}, !.coverages = {}, !.policies = {}]

DeleteCertificateRows(d, certificate_id) ==
  [d EXCEPT
     !.policy_clauses = {r \in d.policy_clauses :
                           r.policy_id \notin PolicyIds(d, certificate_id)},
     !.coverages = {r \in d.coverages :
                      r.policy_id \notin PolicyIds(d, certificate_id)},
     !.policies = {r \in d.policies : r.certificate_id # certificate_id}]

\* The coverages of an outcome: one per code with an amount, policy_index 0.
OutcomeCoverages(extracted_data) ==
  {[coverage_code |-> code, limit_amount |-> extracted_data.limits[code]] :
     code \in {c \in Codes : extracted_data.limits[c] # NoneVal}}

\* What a certificate has in the store, without the row ids.
StoredOutcome(d, certificate_id) ==
  [policies |-> Cardinality(PolicyIds(d, certificate_id)),
   coverages |-> {[coverage_code |-> r.coverage_code,
                   limit_amount |-> r.limit_amount] :
                    r \in CertificateRows(d, certificate_id).coverages},
   clauses |-> {r.clause_code :
                  r \in CertificateRows(d, certificate_id).policy_clauses}]

\* Outcomes the two builders produce, with and without policy data.
PersistOutcomes ==
  {BuildExtractedCoi(c, h, LimitsPrimaryOnly,
                     ValidateAndScore(LimitsPrimaryOnly).quality) :
     c \in Certs, h \in BOOLEAN}
  \cup {BuildCoiFromJson(c, FullReply) : c \in Certs}

\* lines 19-23: get_connection
PersistBegin(w, extracted_data) ==
  /\ wpc[w] = "idle"
  /\ db.seq < MaxPolicies
  /\ wData' = [wData EXCEPT ![w] = extracted_data]
  /\ wExc' = [wExc EXCEPT ![w] = ""]
  /\ wpc' = [wpc EXCEPT ![w] = "delete"]
  /\ UNCHANGED <<db, dbLock, wTxn, policy_id_map, wPrior, runnerVars,
                 parserVars, cacheVars,
                 toolVars>>

\* lines 26-49: the first DELETE opens the write transaction, which SQLite
\* grants to one connection at a time
DeleteOldRows(w) ==
  /\ wpc[w] = "delete"
  /\ dbLock = ""
  /\ dbLock' = w
  /\ wPrior' = [wPrior EXCEPT ![w] =
       [policies |-> CertificateRows(db, wData[w].certificate_id).policies,
        coverages |-> CertificateRows(db, wData[w].certificate_id).coverages,
        policy_clauses |->
          CertificateRows(db, wData[w].certificate_id).policy_clauses,
        deleted |-> TRUE]]
  /\ wTxn' = [wTxn EXCEPT ![w] =
                DeleteCertificateRows(db, wData[w].certificate_id)]
  /\ wpc' = [wpc EXCEPT ![w] = "insert_policies"]
  /\ UNCHANGED <<db, wData, wExc, policy_id_map, runnerVars, parserVars,
                 cacheVars,
                 toolVars>>

\* line 26 while another connection writes: sqlite3.OperationalError
\* (database is locked) once the busy timeout has passed
DatabaseIsLocked(w) ==
  /\ wpc[w] = "delete"
  /\ dbLock \notin {"", w}
  /\ wExc' = [wExc EXCEPT ![w] = "OperationalError"]
  /\ wpc' = [wpc EXCEPT ![w] = "close"]
  /\ UNCHANGED <<db, dbLock, wData, wTxn, policy_id_map, wPrior, runnerVars,
                 parserVars, cacheVars,
                 toolVars>>

\* lines 54-79; ok is whether the INSERT succeeds (a constraint of the
\* schema can refuse it)
InsertPolicies(w, ok) ==
  /\ wpc[w] = "insert_policies"
  /\ IF wData[w].policies = 0
       THEN /\ ok
            /\ wpc' = [wpc EXCEPT ![w] = "insert_coverages"]
            /\ UNCHANGED <<wTxn, policy_id_map, wExc>>
       ELSE IF ok
       THEN /\ wTxn' = [wTxn EXCEPT ![w] =
                  [@ EXCEPT !.seq = @ + 1,
                            !.policies = @ \cup
                              {[id |-> wTxn[w].seq + 1,
                                certificate_id |-> wData[w].certificate_id]}]]
            \* policy_id_map[0] = cur.lastrowid
            /\ policy_id_map' = [policy_id_map EXCEPT ![w] = wTxn[w].seq + 1]
            /\ wpc' = [wpc EXCEPT ![w] = "insert_coverages"]
            /\ UNCHANGED wExc
       ELSE /\ wExc' = [wExc EXCEPT ![w] = "IntegrityError"]
            /\ wpc' = [wpc EXCEPT ![w] = "close"]
            /\ UNCHANGED <<wTxn, policy_id_map>>
  /\ UNCHANGED <<db, dbLock, wData, wPrior, runnerVars, parserVars,
                 cacheVars,
                 toolVars>>

\* lines 82-104: policy_id_map[c.policy_index] raises KeyError when the
\* outcome has no policy
InsertCoverages(w, ok) ==
  /\ wpc[w] = "insert_coverages"
  /\ IF OutcomeCoverages(wData[w]) = {}
       THEN /\ ok
            /\ wpc' = [wpc EXCEPT ![w] = "commit"]
            /\ UNCHANGED <<wTxn, wExc>>
       ELSE IF policy_id_map[w] = 0
       THEN /\ ok
            /\ wExc' = [wExc EXCEPT ![w] = "KeyError"]
            /\ wpc' = [wpc EXCEPT ![w] = "close"]
            /\ UNCHANGED wTxn
       ELSE IF ok
       THEN /\ wTxn' = [wTxn EXCEPT ![w] =
                  [@ EXCEPT !.coverages = @ \cup
                     {[policy_id |-> policy_id_map[w],
                       coverage_code |-> c.coverage_code,
                       limit_amount |-> c.limit_amount] :
                        c \in OutcomeCoverages(wData[w])}]]
            /\ wpc' = [wpc EXCEPT ![w] = "commit"]
            /\ UNCHANGED wExc
       ELSE /\ wExc' = [wExc EXCEPT ![w] = "IntegrityError"]
            /\ wpc' = [wpc EXCEPT ![w] = "close"]
            /\ UNCHANGED wTxn
  /\ UNCHANGED <<db, dbLock, wData, policy_id_map, wPrior, runnerVars,
                 parserVars, cacheVars,
                 toolVars>>

\* lines 107-125: the builders leave clauses empty, then conn.commit()
CommitPersist(w, ok) ==
  /\ wpc[w] = "commit"
  /\ IF ok
       THEN /\ db' = wTxn[w]
            /\ dbLock' = ""
            /\ UNCHANGED wExc
       ELSE /\ wExc' = [wExc EXCEPT ![w] = "OperationalError"]
            /\ UNCHANGED <<db, dbLock>>
  /\ wpc' = [wpc EXCEPT ![w] = "close"]
  /\ UNCHANGED <<wData, wTxn, policy_id_map, wPrior, runnerVars, parserVars,
                 cacheVars,
                 toolVars>>

\* line 127: conn.close() in the finally clause; a transaction that was not
\* committed is rolled back
ClosePersistCommits(w) ==
  /\ wpc[w] = "close"
  /\ db' = IF dbLock = w THEN wTxn[w] ELSE db
  /\ dbLock' = IF dbLock = w THEN "" ELSE dbLock
  /\ wTxn' = [wTxn EXCEPT ![w] = EmptyDb]
  /\ policy_id_map' = [policy_id_map EXCEPT ![w] = 0]
  /\ wPrior' = [wPrior EXCEPT ![w] = NoPrior]
  /\ wpc' = [wpc EXCEPT ![w] = "idle"]
  /\ UNCHANGED <<wData, wExc, runnerVars, parserVars, cacheVars,
                 toolVars>>

ClosePersist(w) ==
  /\ wpc[w] = "close"
  /\ dbLock' = IF dbLock = w THEN "" ELSE dbLock
  /\ wTxn' = [wTxn EXCEPT ![w] = EmptyDb]
  /\ policy_id_map' = [policy_id_map EXCEPT ![w] = 0]
  /\ wPrior' = [wPrior EXCEPT ![w] = NoPrior]
  /\ wpc' = [wpc EXCEPT ![w] = "idle"]
  /\ UNCHANGED <<db, wData, wExc, runnerVars, parserVars, cacheVars,
                 toolVars>>

NextPersist ==
  \/ \E w \in Workers, extracted_data \in PersistOutcomes :
       PersistBegin(w, extracted_data)
  \/ \E w \in Workers : DeleteOldRows(w)
  \/ \E w \in Workers : DatabaseIsLocked(w)
  \/ \E w \in Workers, ok \in BOOLEAN : InsertPolicies(w, ok)
  \/ \E w \in Workers, ok \in BOOLEAN : InsertCoverages(w, ok)
  \/ \E w \in Workers, ok \in BOOLEAN : CommitPersist(w, ok)
  \/ \E w \in Workers : ClosePersist(w)

\* A store that already holds an outcome of certificate 1, with a clause.
SeededDb ==
  [policies |-> {[id |-> 1, certificate_id |-> 1]},
   coverages |-> {[policy_id |-> 1, coverage_code |-> "GL_EACH_OCC",
                   limit_amount |-> 500]},
   policy_clauses |-> {[policy_id |-> 1, clause_code |-> "AI"]},
   seq |-> 1]

InitPersist ==
  /\ RunnerInit
  /\ ParserIdle
  /\ CacheIdle
  /\ ScorerIdle
  /\ ClassifierIdle
  /\ db = SeededDb
  /\ dbLock = ""
  /\ wpc = [w \in Workers |-> "idle"]
  /\ wData = [w \in Workers |-> NoOutcome]
  /\ wTxn = [w \in Workers |-> EmptyDb]
  /\ policy_id_map = [w \in Workers |-> 0]
  /\ wExc = [w \in Workers |-> ""]
  /\ wPrior = [w \in Workers |-> NoPrior]

SpecPersist == InitPersist /\ [][NextPersist]_vars

\* ------------------------- extract_limits and validate_and_score, alone
\* What _extract_limit_multi_strategy can read for a code, in thousands.
RawValues(code) ==
  CASE code = "GL_EACH_OCC"    -> {NoneVal, 50, 1000, 1400, 5000}
    [] code = "GL_AGGREGATE"   -> {NoneVal, 50, 500, 1000, 1400, 5000}
    [] code = "GL_PERS_ADV"    -> {NoneVal, 50, 1000}
    [] code = "GL_PROD_AGG"    -> {NoneVal, 2000}
    [] code = "GL_DAMAGE_PREM" -> {NoneVal, 100, 3000}
    [] OTHER                   -> {NoneVal, 5, 150}

RawLimits ==
  {[GL_EACH_OCC |-> a, GL_AGGREGATE |-> b, GL_PERS_ADV |-> c,
    GL_PROD_AGG |-> d, GL_DAMAGE_PREM |-> e, GL_MED_EXP |-> f] :
     a \in RawValues("GL_EACH_OCC"), b \in RawValues("GL_AGGREGATE"),
     c \in RawValues("GL_PERS_ADV"), d \in RawValues("GL_PROD_AGG"),
     e \in RawValues("GL_DAMAGE_PREM"), f \in RawValues("GL_MED_EXP")}

\* extract_limits: the six raw values, then _filter_bizarre_values
ExtractLimits ==
  /\ scorer.pc = "idle"
  /\ \E raw \in RawLimits :
       scorer' = [pc |-> "filtered", raw |-> raw,
                  limits |-> FilterBizarreValues(raw),
                  quality |-> 0, issues |-> <<>>]
  /\ UNCHANGED <<classifier, runnerVars, parserVars, persistVars, cacheVars>>

\* quality, issues = validate_and_score(limits)
Score ==
  /\ scorer.pc = "filtered"
  /\ LET scored == ValidateAndScore(scorer.limits)
     IN scorer' = [scorer EXCEPT !.pc = "scored",
                                 !.quality = scored.quality,
                                 !.issues = scored.issues]
  /\ UNCHANGED <<classifier, runnerVars, parserVars, persistVars, cacheVars>>

\* the next document
ScoreNext ==
  /\ scorer.pc = "scored"
  /\ scorer' = [pc |-> "idle", raw |-> NoLimits, limits |-> NoLimits,
                quality |-> 0, issues |-> <<>>]
  /\ UNCHANGED <<classifier, runnerVars, parserVars, persistVars, cacheVars>>

NextScore == ExtractLimits \/ Score \/ ScoreNext

SpecScore == Init /\ [][NextScore]_vars

\* ----------------------------------- classifier.py: DocumentClassifier
\* Confidence is scaled by ConfidenceScale; a weight by 10.
ConfidenceScale == 1000

MinConfidenceDefault == 300

\* DocType members with an entry in PATTERNS, in declaration order.
DocTypes ==
  <<"acord_25_coi", "workers_comp", "auto_liability", "endorsement",
    "certificate_generic">>

\* PATTERNS: the number of required and of strong patterns, and the weight.
PATTERNS ==
  [acord_25_coi        |-> [required |-> 2, strong |-> 4, weight |-> 10],
   workers_comp        |-> [required |-> 1, strong |-> 4, weight |-> 9],
   auto_liability      |-> [required |-> 2, strong |-> 5, weight |-> 8],
   endorsement         |-> [required |-> 2, strong |-> 3, weight |-> 7],
   certificate_generic |-> [required |-> 1, strong |-> 3, weight |-> 5]]

\* What re.search finds in a text for one type: which required patterns
\* (by position in the list) and how many strong ones.
Matches(doc_type) ==
  [required : SUBSET (1..PATTERNS[doc_type].required),
   strong : 0..PATTERNS[doc_type].strong]

NoMatch == [required |-> {}, strong |-> 0]

\* Patterns that contain one another: CERTIFICATE OF INSURANCE contains
\* CERTIFICATE; THIS ENDORSEMENT CHANGES THE POLICY, ENDORSEMENT NUMBER and
\* EFFECTIVE DATE OF ENDORSEMENT contain ENDORSEMENT; POLICY NUMBER is a
\* strong pattern of two types.
Consistent(m) ==
  /\ 2 \in m.acord_25_coi.required => 1 \in m.certificate_generic.required
  /\ 2 \in m.endorsement.required => 1 \in m.endorsement.required
  /\ m.endorsement.strong >= 2 => 1 \in m.endorsement.required
  /\ m.endorsement.strong = 3 => m.certificate_generic.strong >= 1
  /\ m.certificate_generic.strong = 3 => m.endorsement.strong >= 1

\* Texts: long is len(text) >= 100.
Texts ==
  {t \in [long : BOOLEAN,
          acord_25_coi : Matches("acord_25_coi"),
          workers_comp : Matches("workers_comp"),
          auto_liability : Matches("auto_liability"),
          endorsement : Matches("endorsement"),
          certificate_generic : Matches("certificate_generic")] :
     /\ Consistent(t)
     /\ Cardinality({i \in 1..4 : t[DocTypes[i]] # NoMatch}) <= MaxTypes}

\* The indicator list of a type: the required patterns found and, behind
\* them, the strong ones.
Indicators(doc_type, required, strong) ==
  [message |-> "", doc_type |-> doc_type, required |-> required,
   strong |-> strong]

\* An indicator list holding one fixed message.
Message(text) ==
  [message |-> text, doc_type |-> "", required |-> {}, strong |-> 0]

EvaluateTypeIgnoresRequired(doc_type, found) ==
  LET patterns == PATTERNS[doc_type]
      score == (50 + 10 * found.strong) * patterns.weight
  IN [score |-> IF score > ConfidenceScale THEN ConfidenceScale ELSE score,
      indicators |-> Indicators(doc_type, found.required, found.strong)]

\* _evaluate_type: score 0 at once unless every required pattern is found
EvaluateType(doc_type, found) ==
  LET patterns == PATTERNS[doc_type]
      required_found == Cardinality(found.required)
      score == (50 + 10 * found.strong) * patterns.weight
  IN IF required_found < patterns.required
       THEN [score |-> 0,
             indicators |-> Indicators(doc_type, found.required, 0)]
       ELSE [score |-> IF score > ConfidenceScale THEN ConfidenceScale
                                                  ELSE score,
             indicators |-> Indicators(doc_type, found.required,
                                       found.strong)]

\* Every type evaluated on the text (the loop of lines 137-140).
Evaluated(text) ==
  [i \in 1..Len(DocTypes) |-> EvaluateType(DocTypes[i], text[DocTypes[i]])]

BestTypeLastWins(scores) ==
  CHOOSE i \in DOMAIN scores :
    /\ scores[i].score > 0
    /\ \A j \in DOMAIN scores :
         /\ scores[j].score <= scores[i].score
         /\ j > i => scores[j].score < scores[i].score

\* max(scores.items(), key=...): the first entry with the highest score,
\* among the types with a score above 0
BestType(scores) ==
  CHOOSE i \in DOMAIN scores :
    /\ scores[i].score > 0
    /\ \A j \in DOMAIN scores :
         /\ scores[j].score <= scores[i].score
         /\ j < i => scores[j].score < scores[i].score

ClassifyResult(text, min_confidence) ==
  LET scores == Evaluated(text)
  IN IF ~text.long
       THEN [doc_type |-> "unknown", confidence |-> 0,
             indicators |-> Message("Texto insuficiente")]
     ELSE IF \A i \in DOMAIN scores : scores[i].score = 0
       THEN [doc_type |-> "unknown", confidence |-> 0,
             indicators |-> Message("Nenhum pattern encontrado")]
     ELSE LET best == BestType(scores)
          IN [doc_type |-> IF scores[best].score < min_confidence
                             THEN "unknown" ELSE DocTypes[best],
              confidence |-> scores[best].score,
              indicators |-> scores[best].indicators]

MinConfidences == {MinConfidenceDefault, 2 * MinConfidenceDefault}

\* classify(text, min_confidence)
Classify ==
  /\ classifier.pc = "idle"
  /\ \E text \in Texts, min_confidence \in MinConfidences :
       classifier' = [pc |-> "returned", text |-> text,
                      min_confidence |-> min_confidence,
                      result |-> ClassifyResult(text, min_confidence)]
  /\ UNCHANGED <<scorer, runnerVars, parserVars, persistVars, cacheVars>>

\* the next text
ClassifyNext ==
  /\ classifier.pc = "returned"
  /\ classifier' = [pc |-> "idle", text |-> <<>>, min_confidence |-> 0,
                    result |-> NoClassification]
  /\ UNCHANGED <<scorer, runnerVars, parserVars, persistVars, cacheVars>>

NextClassify == Classify \/ ClassifyNext

SpecClassify == Init /\ [][NextClassify]_vars

\* ------------------------------------------------------------ properties
TerminalStatus == {"SUCCESS", "OCR_FAILED", "PARSING_FAILED", "FAILED"}

\* Position of a status in PENDING -> STARTED -> OCR_IN_PROGRESS -> PARSING
\* -> terminal.
Rank(status) ==
  CASE status = "PENDING" -> 0
    [] status = "STARTED" -> 1
    [] status = "OCR_IN_PROGRESS" -> 2
    [] status = "PARSING" -> 3
    [] OTHER -> 4

Acquired == lastOcr.raised = "ok"

\* C1: when acquisition fails on every attempt until the retries are
\* exhausted, process_certificate returns with OCR_FAILED recorded on the
\* run and returned, and parsing was never invoked.
C1_ExhaustedAcquisitionRecordsOcrFailed ==
  (pc = "return" /\ failure = "acquisition" /\ attempts = 3)
    => /\ parseCalls = 0
       /\ result.status = "OCR_FAILED"
       /\ run_id \in DOMAIN runs
       /\ runs[run_id].status = "OCR_FAILED"

\* C2: when process_certificate returns, the run it created is in the store
\* in a terminal status, and a failed run carries a non-empty error detail.
C2_ReturnedRunIsTerminalInStore ==
  (pc = "return" /\ run_id # 0)
    => /\ run_id \in DOMAIN runs
       /\ runs[run_id].status \in TerminalStatus
       /\ runs[run_id].status # "SUCCESS" => runs[run_id].error_detail # ""

\* C3: a process interrupted while text acquisition is in progress leaves
\* its run in the store with status OCR_IN_PROGRESS.
C3_InterruptedAcquisitionIsVisible ==
  interrupted.at = "ocr"
    => /\ interrupted.run_id \in DOMAIN runs
       /\ runs[interrupted.run_id].status = "OCR_IN_PROGRESS"

\* C4: every change of a run's status, as the open connection sees it and
\* as committed, moves the run strictly forward along PENDING -> STARTED ->
\* OCR_IN_PROGRESS -> PARSING -> terminal; a terminal status never changes.
C4_StatusOnlyMovesForward ==
  [][/\ \A i \in DOMAIN connRuns \cap DOMAIN connRuns' :
          connRuns'[i].status # connRuns[i].status
            => Rank(connRuns'[i].status) > Rank(connRuns[i].status)
     /\ \A i \in DOMAIN runs \cap DOMAIN runs' :
          runs'[i].status # runs[i].status
            => Rank(runs'[i].status) > Rank(runs[i].status)]_vars

C4_Witness ==
  /\ pc = "return"
  /\ run_id \in DOMAIN runs
  /\ runs[run_id].status = "SUCCESS"

\* C5: within one run acquisition is attempted at most 3 times, parsing and
\* persistence at most once each, and after a parsing or persistence failure
\* the run makes no further attempt of any step.
C5_BoundedAttempts ==
  [][/\ attempts' <= 3
     /\ parseCalls' <= 1
     /\ persistCalls' <= 1
     /\ (failure \in {"parsing", "persistence"} /\ pc' # "idle")
          => /\ attempts' = attempts
             /\ parseCalls' = parseCalls
             /\ persistCalls' = persistCalls]_vars

C5_Witness ==
  /\ pc = "return"
  /\ failure = "persistence"
  /\ attempts = 3
  /\ parseCalls = 1
  /\ persistCalls = 1

\* C6: an attempt is followed by another attempt only if what it raised is
\* an OCRException; after an attempt that raised any other class no further
\* attempt is made.
C6_RetryOnlyRetryableClass ==
  /\ retried \subseteq {"OCRException"}
  /\ lastOcr.raised \notin {"", "ok", "OCRException"} => pc # "ocr"

C6_Witness ==
  /\ pc = "return"
  /\ attempts = 1
  /\ lastOcr.raised = "OSError"

\* C7: when the parser returns no outcome, process_certificate returns
\* PARSING_FAILED and the run is stored as PARSING_FAILED with the reason.
C7_NoOutcomeIsParsingFailed ==
  (pc = "return" /\ failure = "parsing")
    => /\ result.status = "PARSING_FAILED"
       /\ run_id \in DOMAIN runs
       /\ runs[run_id].status = "PARSING_FAILED"
       /\ runs[run_id].error_detail # ""

C9_EverySelectedIdInvoked ==
  /\ \A i, j \in 1..Len(queue) : i < j => queue[i] < queue[j]
  /\ Len(invoked) <= Len(queue)
  /\ \A i \in 1..Len(invoked) : invoked[i] = queue[i]
  /\ pc = "idle" => Len(invoked) = qi - 1
  /\ pc # "idle" => Len(invoked) = qi

C9_Witness ==
  /\ pc = "idle"
  /\ Len(queue) = 2
  /\ qi = 3
  /\ escapedAt = 1
  /\ invoked = queue

\* C10: when the heuristic quality is below 0.7 and the fallback service
\* answers with an outcome of quality 0.9, the outcome persisted for the
\* certificate is the fallback one, with source CLAUDE_HAIKU.
C10_FallbackOutcomePersisted ==
  (/\ pc = "return"
   /\ result.status = "SUCCESS"
   /\ heuristic < 84
   /\ ParseWithHaiku(cur, haikuEnv).quality_score = 108)
    => /\ outcomes[cur].source = "CLAUDE_HAIKU"
       /\ outcomes[cur] = ParseWithHaiku(cur, haikuEnv)

\* C11: when the heuristic found limits with a score h below 0.7 and the
\* fallback returned an outcome with score f, the parse step returns the
\* fallback outcome if f > h and the heuristic outcome otherwise, whole and
\* unmixed.
C11_HigherScoreWinsOutright ==
  (ppc = "returned" /\ 0 < pQuality /\ pQuality < AcceptThreshold
     /\ pHaiku # NoOutcome)
    => pParsed = IF pHaiku.quality_score > pQuality
                   THEN pHaiku ELSE HeuristicOutcome

\* C12: when the fallback was called and failed (no key, an error, a
\* timeout or a malformed reply on every request) and a heuristic outcome
\* exists, the parse step returns that outcome unchanged: same limits, same
\* score, source REGEX_PARSER.
C12_FallbackFailureKeepsHeuristic ==
  (ppc = "returned" /\ pHaikuCalls > 0 /\ pHaiku = NoOutcome /\ pQuality > 0)
    => /\ pParsed # NoOutcome
       /\ pParsed.limits = pLimits
       /\ pParsed.quality_score = pQuality
       /\ pParsed.source = "REGEX_PARSER"
       /\ pParsed.policies = (IF pInput.has_policy_data THEN 1 ELSE 0)

C12_Witness ==
  /\ ppc = "returned"
  /\ pQuality > 0
  /\ Len(pRequests) = 2
  /\ \A i \in DOMAIN pRequests : pRequests[i].outcome = NoOutcome
  /\ pParsed.source = "REGEX_PARSER"

\* C13: parse_with_haiku is called, and a request sent, only when the
\* heuristic score is below 0.7 (0 included); at 0.7 or above no call is
\* made and the heuristic outcome is returned.
C13_FallbackOnlyBelowThreshold ==
  /\ (pHaikuCalls > 0 \/ pRequests # <<>>) => 10 * pQuality < 7 * QualityScale
  /\ (ppc = "returned" /\ ~pInput.crash /\ 10 * pQuality >= 7 * QualityScale)
       => /\ pHaikuCalls = 0
          /\ pRequests = <<>>
          /\ pParsed = HeuristicOutcome

C13_Witness ==
  /\ ppc = "returned"
  /\ 10 * pQuality >= 7 * QualityScale
  /\ pEnv.claude_available /\ pEnv.api_key /\ pEnv.client_ok
  /\ pHaikuCalls = 0
  /\ pParsed.source = "REGEX_PARSER"

\* C14: in an escalation the text request comes first; an image request is
\* sent only right after a text request that returned an outcome below the
\* acceptance threshold.
C14_TextFirstThenImage ==
  \A i \in DOMAIN pRequests :
    pRequests[i].kind = "image"
      => /\ i > 1
         /\ pRequests[i - 1].kind = "text"
         /\ pRequests[i - 1].outcome # NoOutcome
         /\ pRequests[i - 1].outcome.quality_score < AcceptThreshold

\* C20: every value the plausibility filter returns is None or inside the
\* range ParserConfig declares for its code, and an input outside that range
\* comes back as None.
C20_FilterReturnsNullOrInRange ==
  \A code \in Codes :
    /\ pLimits[code] # NoneVal
         => /\ LimitRanges[code][1] <= pLimits[code]
            /\ pLimits[code] <= LimitRanges[code][2]
    /\ (pInput.raw_limits[code] # NoneVal
          /\ (pInput.raw_limits[code] < LimitRanges[code][1]
               \/ pInput.raw_limits[code] > LimitRanges[code][2]))
         => (ppc # "idle" => pLimits[code] = NoneVal)

\* The rows persist_extracted_coi is to store for an outcome.
ExpectedOutcome(extracted_data) ==
  [policies |-> extracted_data.policies,
   coverages |-> OutcomeCoverages(extracted_data),
   clauses |-> {}]

\* C15: in every outcome a builder produced, the policy_index of each
\* coverage (always 0) is an index of the outcome's policy list, also when
\* no policy number and no effective date were extracted, so that
\* persist_extracted_coi never ends in a KeyError.
C15_PolicyReferenceResolves ==
  \A w \in Workers :
    wData[w] # NoOutcome
      => /\ OutcomeCoverages(wData[w]) # {} => 0 < wData[w].policies
         /\ wExc[w] # "KeyError"

\* C16: the commit of persist_extracted_coi leaves the certificate with
\* exactly the policies, coverages and clauses of the new outcome, and the
\* rows of every other certificate as they were.
C16_PersistReplacesOutcome ==
  [][\A w \in Workers :
       (wpc[w] = "commit" /\ wpc'[w] = "close" /\ wExc'[w] = "")
         => /\ StoredOutcome(db', wData[w].certificate_id)
                 = ExpectedOutcome(wData[w])
            /\ \A c \in Certs \ {wData[w].certificate_id} :
                 CertificateRows(db', c) = CertificateRows(db, c)]_vars

C16_Witness ==
  \E w \in Workers :
    /\ wpc[w] = "close"
    /\ wExc[w] = ""
    /\ wPrior[w].policy_clauses # {}
    /\ wData[w].source = "CLAUDE_HAIKU"
    /\ StoredOutcome(db, wData[w].certificate_id) = ExpectedOutcome(wData[w])
    /\ \E c \in Certs \ {wData[w].certificate_id} :
         CertificateRows(db, c).coverages # {}

\* C17: a call of persist_extracted_coi that fails after its deletes leaves
\* the store, and with it the certificate's prior rows, as they were.
C17_FailedPersistKeepsPrior ==
  [][\A w \in Workers :
       (wExc'[w] # "" /\ wPrior'[w].deleted)
       \/ (wpc[w] = "close" /\ wExc[w] # "" /\ wPrior[w].deleted)
         => /\ db' = db
            /\ CertificateRows(db', wData[w].certificate_id).policies
                 = wPrior'[w].policies \cup wPrior[w].policies
            /\ CertificateRows(db', wData[w].certificate_id).coverages
                 = wPrior'[w].coverages \cup wPrior[w].coverages
            /\ CertificateRows(db', wData[w].certificate_id).policy_clauses
                 = wPrior'[w].policy_clauses \cup wPrior[w].policy_clauses
    ]_vars

C17_Witness ==
  \E w \in Workers :
    /\ wpc[w] = "idle"
    /\ wExc[w] = "IntegrityError"
    /\ wData[w].policies = 1
    /\ dbLock = ""
    /\ StoredOutcome(db, wData[w].certificate_id).clauses # {}
    /\ StoredOutcome(db, wData[w].certificate_id) # ExpectedOutcome(wData[w])

\* C18: with two callers at work on different certificates, the rows of a
\* certificate change only by the commit of the caller persisting that
\* certificate, to that caller's outcome, and the policy id a caller puts on
\* its coverages is that of its own certificate's policy.
C18_ConcurrentPersistsAreScoped ==
  [][\A c \in Certs :
       /\ CertificateRows(db', c) # CertificateRows(db, c)
            => \E w \in Workers :
                 /\ wpc[w] = "commit" /\ wpc'[w] = "close"
                 /\ wData[w].certificate_id = c
                 /\ StoredOutcome(db', c) = ExpectedOutcome(wData[w])
       /\ \A w \in Workers :
            policy_id_map'[w] # 0
              => [id |-> policy_id_map'[w],
                  certificate_id |-> wData'[w].certificate_id]
                   \in wTxn'[w].policies]_vars

C18_Witness ==
  \E w, v \in Workers :
    /\ wpc[w] = "close" /\ wExc[w] = ""
    /\ wpc[v] \in {"delete", "close"}
    /\ wData[w].certificate_id # wData[v].certificate_id
    /\ StoredOutcome(db, wData[w].certificate_id) = ExpectedOutcome(wData[w])
    /\ CertificateRows(db, wData[v].certificate_id).coverages # {}

\* C19: every get_cached_text returns None or a whole text some caller gave
\* to save_to_cache, and while no save_to_cache has the cache file open the
\* file reads as the text of the save_to_cache that finished last.
C19_CacheLastWriterWins ==
  /\ \A w \in Workers : cRead[w].hit => cRead[w].text \in cPut
  /\ ((\A w \in Workers : cpc[w] # "write") /\ cLast # <<>>)
       => /\ cFile.exists
          /\ JsonLoad(cFile.data) = [hit |-> TRUE, text |-> cLast]

\* C21: after the plausibility filter each-occurrence is at most the general
\* aggregate whenever both are there, and when both raw primary values pass
\* the range test and each-occurrence exceeds the aggregate, the output has
\* the two raw values exchanged.
C21_FilterOrdersPrimaries ==
  scorer.pc \in {"filtered", "scored"}
    => /\ (scorer.limits["GL_EACH_OCC"] # NoneVal
            /\ scorer.limits["GL_AGGREGATE"] # NoneVal)
           => scorer.limits["GL_EACH_OCC"] <= scorer.limits["GL_AGGREGATE"]
       /\ (scorer.raw["GL_EACH_OCC"] >= MinPrimaryLimit
            /\ scorer.raw["GL_AGGREGATE"] >= MinPrimaryLimit
            /\ scorer.raw["GL_EACH_OCC"] > scorer.raw["GL_AGGREGATE"])
           => /\ scorer.limits["GL_EACH_OCC"] = scorer.raw["GL_AGGREGATE"]
              /\ scorer.limits["GL_AGGREGATE"] = scorer.raw["GL_EACH_OCC"]

C21_Witness ==
  /\ scorer.pc = "filtered"
  /\ scorer.raw["GL_EACH_OCC"] = 5000
  /\ scorer.raw["GL_AGGREGATE"] = 1000
  /\ scorer.limits["GL_EACH_OCC"] = 1000
  /\ scorer.limits["GL_AGGREGATE"] = 5000

\* C22: the score validate_and_score returns is 0.0 exactly when both
\* primary limits of the map it was given are None.
C22_ZeroIffNoPrimary ==
  scorer.pc = "scored"
    => (scorer.quality = 0
          <=> (scorer.limits["GL_EACH_OCC"] = NoneVal
               /\ scorer.limits["GL_AGGREGATE"] = NoneVal))

C22_Witness ==
  /\ scorer.pc = "scored"
  /\ scorer.quality = 0
  /\ scorer.raw["GL_AGGREGATE"] = 50
  /\ scorer.limits["GL_PERS_ADV"] # NoneVal
  /\ scorer.limits["GL_MED_EXP"] # NoneVal

\* C23: with a primary limit present the score is (non-null limits / 6) x
\* (1.0 if both primaries else 0.5) x (1.0 if at most one issue in the
\* returned list else 0.5).
C23_ScoreFormula ==
  (scorer.pc = "scored"
     /\ (scorer.limits["GL_EACH_OCC"] # NoneVal
         \/ scorer.limits["GL_AGGREGATE"] # NoneVal))
    => 6 * 2 * 2 * scorer.quality
         = Cardinality({code \in Codes : scorer.limits[code] # NoneVal})
             * (IF scorer.limits["GL_EACH_OCC"] # NoneVal
                   /\ scorer.limits["GL_AGGREGATE"] # NoneVal
                  THEN 2 ELSE 1)
             * (IF Len(scorer.issues) <= 1 THEN 2 ELSE 1)
             * QualityScale

C23_Witness ==
  /\ scorer.pc = "scored"
  /\ scorer.limits["GL_EACH_OCC"] = 1000
  /\ scorer.limits["GL_AGGREGATE"] = NoneVal
  /\ Cardinality({code \in Codes : scorer.limits[code] # NoneVal}) = 4
  /\ Len(scorer.issues) = 1
  /\ 3 * scorer.quality = QualityScale

\* C24 as claimed: with the general aggregate the only limit extracted the
\* score is 0.5 and the issue of the missing primary limit is recorded.
C24_AggregateOnlyScoresHalf ==
  (scorer.pc = "scored"
     /\ scorer.limits["GL_AGGREGATE"] # NoneVal
     /\ \A code \in Codes \ {"GL_AGGREGATE"} : scorer.limits[code] = NoneVal)
    => /\ 2 * scorer.quality = QualityScale
       /\ scorer.issues = <<"Falta limite principal">>

\* C24 as amended: with the general aggregate the only limit extracted the
\* score is 1/12 (one limit of six, times 0.5 for the missing primary) and
\* the issue of the missing primary limit is the one issue recorded.
C24_AggregateOnlyScoresOneTwelfth ==
  (scorer.pc = "scored"
     /\ scorer.limits["GL_AGGREGATE"] # NoneVal
     /\ \A code \in Codes \ {"GL_AGGREGATE"} : scorer.limits[code] = NoneVal)
    => /\ 12 * scorer.quality = QualityScale
       /\ scorer.issues = <<"Falta limite principal">>

C24_Witness ==
  /\ scorer.pc = "scored"
  /\ scorer.raw = [NoLimits EXCEPT !["GL_AGGREGATE"] = 500]
  /\ scorer.limits = [NoLimits EXCEPT !["GL_AGGREGATE"] = 500]
  /\ scorer.issues # <<>>

\* C25: the quality score of every outcome parse_acord25_gl_limits returns,
\* built by the heuristic or by the fallback, and of every outcome
\* parse_with_haiku hands back, is in [0, 1].
C25_QualityInUnitInterval ==
  /\ pParsed # NoOutcome
       => 0 <= pParsed.quality_score /\ pParsed.quality_score <= QualityScale
  /\ pHaiku # NoOutcome
       => 0 <= pHaiku.quality_score /\ pHaiku.quality_score <= QualityScale
  /\ 0 <= pQuality /\ pQuality <= QualityScale

C25_Witness ==
  /\ ppc = "returned"
  /\ pParsed.source = "REGEX_PARSER"
  /\ pParsed.quality_score = QualityScale
  /\ \A code \in Codes : pParsed.limits[code] # NoneVal

\* C26: for a text of at least 100 characters, a type with a required
\* pattern that does not match scores exactly 0, however many of its strong
\* patterns match, and is not the type classify returns.
C26_MissingRequiredScoresZero ==
  (classifier.pc = "returned" /\ classifier.text.long)
    => \A i \in 1..Len(DocTypes) :
         Cardinality(classifier.text[DocTypes[i]].required)
             < PATTERNS[DocTypes[i]].required
           => /\ Evaluated(classifier.text)[i].score = 0
              /\ classifier.result.doc_type # DocTypes[i]

C26_Witness ==
  /\ classifier.pc = "returned"
  /\ classifier.text.long
  /\ classifier.text.acord_25_coi = [required |-> {2}, strong |-> 4]
  /\ classifier.text.certificate_generic.strong = 0
  /\ classifier.result.doc_type = "unknown"
  /\ classifier.result.confidence = 250

\* C27 as claimed: classify returns the type with the highest score, the
\* earliest declared winning a tie, and Unknown if that score is below
\* min_confidence, with the confidence and the indicators computed for the
\* winning type.
C27_HighestScoreWins ==
  classifier.pc = "returned"
    => LET scores == Evaluated(classifier.text)
           best == CHOOSE i \in DOMAIN scores :
                     \A j \in DOMAIN scores :
                       /\ scores[j].score <= scores[i].score
                       /\ j < i => scores[j].score < scores[i].score
       IN /\ classifier.result.doc_type
               = IF scores[best].score < classifier.min_confidence
                   THEN "unknown" ELSE DocTypes[best]
          /\ classifier.result.confidence = scores[best].score
          /\ classifier.result.indicators = scores[best].indicators

\* C27 as amended: for a text of at least 100 characters in which some type
\* has all its required patterns, classify returns the type with the
\* highest score, the earliest declared winning a tie, and Unknown if that
\* score is below min_confidence, with the confidence and the indicators
\* computed for the winning type.
C27_HighestPositiveScoreWins ==
  (classifier.pc = "returned"
     /\ classifier.text.long
     /\ \E i \in 1..Len(DocTypes) :
          Cardinality(classifier.text[DocTypes[i]].required)
            = PATTERNS[DocTypes[i]].required)
    => LET scores == Evaluated(classifier.text)
           best == CHOOSE i \in DOMAIN scores :
                     \A j \in DOMAIN scores :
                       /\ scores[j].score <= scores[i].score
                       /\ j < i => scores[j].score < scores[i].score
       IN /\ classifier.result.doc_type
               = IF scores[best].score < classifier.min_confidence
                   THEN "unknown" ELSE DocTypes[best]
          /\ classifier.result.confidence = scores[best].score
          /\ classifier.result.indicators = scores[best].indicators

C27_Witness ==
  /\ classifier.pc = "returned"
  /\ classifier.text.long
  /\ classifier.text.auto_liability = [required |-> {1, 2}, strong |-> 2]
  /\ classifier.text.endorsement = [required |-> {1, 2}, strong |-> 3]
  /\ classifier.min_confidence = MinConfidenceDefault
  /\ classifier.result.doc_type = "auto_liability"
  /\ classifier.result.confidence = 560

\* C28 as claimed: a reset moves a certificate to PENDING only from a
\* terminal failure status, never from SUCCESS and never while its run is
\* in progress.
C28_ResetOnlyFromFailure ==
  [][\A c \in Certs :
       (certStatus[c] # "PENDING" /\ certStatus'[c] = "PENDING")
         => (certStatus[c] = "FAILED" /\ cur # c)]_vars

\* C28 as amended: a reset moves a certificate to PENDING from any status,
\* SUCCESS included, and there is no mid-run cancellation: it changes no
\* extraction run, in the store or on the open connection, nor the position
\* of the call in progress.
C28_ResetCancelsNothing ==
  [][(\E c \in Certs : certStatus[c] # "PENDING" /\ certStatus'[c] = "PENDING")
       => /\ \A c \in Certs :
               certStatus'[c] \in {certStatus[c], "PENDING"}
          /\ UNCHANGED <<runs, outcomes, connVars, pc, driverVars, callVars,
                         interrupted>>]_vars

C28_Witness ==
  /\ pc \in InRunPcs
  /\ \E c \in Certs \ {cur} :
       /\ certStatus[c] = "PENDING"
       /\ \E i \in 1..Len(runs) :
            runs[i].certificate_id = c /\ runs[i].status = "SUCCESS"

\* C29: when the driver is done with a certificate, whether the call
\* returned or raised, the certificate is no longer PENDING, so that a
\* later batch does not select it again.
C29_ProcessedIsNotPending ==
  [][(pc \in {"return", "escaped"} /\ pc' = "idle")
       => certStatus'[cur] # "PENDING"]_vars

\* C30: the cache file changes only in the save_to_cache of a call whose
\* text acquisition returned a text, a call whose acquisition raised leaves
\* the file as it was and ends, and a call gets to the OCR engine only from
\* its own cache lookup, when that lookup returned no text.
C30_CacheWrittenAfterAcquisition ==
  [][/\ cFile' # cFile
          => \E w \in Workers :
               /\ cpc[w] \in {"save", "write"}
               /\ cpc'[w] \in {"write", "idle"}
               /\ cExc[w] = ""
               /\ cText[w] # <<>>
               /\ cText[w] \in cPut'
     /\ \A w \in Workers :
          /\ (cExc'[w] # "" /\ cExc[w] = "")
               => (cpc[w] = "ocr" /\ cpc'[w] = "idle" /\ cFile' = cFile)
          /\ cExc'[w] # "" => cpc'[w] = "idle"
          /\ (cpc'[w] = "ocr" /\ cpc[w] # "ocr")
               => (cpc[w] = "idle" /\ ~cRead'[w].hit)
          /\ (cpc[w] = "idle" /\ cRead'[w].hit
                /\ cRead'[w] = JsonLoad(cFile.data))
               => cpc'[w] = "idle"]_vars

C30_Witness ==
  \E w, v \in Workers :
    /\ cExc[w] = "OCRException" /\ cText[w] = <<>>
    /\ cpc[v] = "idle" /\ cRead[v].hit /\ cRead[v].text = cLast
    /\ cFile.exists /\ JsonLoad(cFile.data) = cRead[v]

====
